---------------------------- MODULE Spec2Model ----------------------------
(***************************************************************************)
(* State-machine model of the somenewsfound ingestion / enrichment worker: *)
(*   index.js worker loop -> rssReader (feed pull, source + article upsert) *)
(*   -> articlesScrape (pending fetch, scraper dispatch, scrape, markdown   *)
(*   conversion through the inference service, content UPDATE).            *)
(* Strings the code computes on (titles, table names, host names) are      *)
(* sequences of one-character strings, so the string functions are         *)
(* computed, not assumed.                                                  *)
(***************************************************************************)
EXTENDS Integers, Sequences, FiniteSets, TLC

NULL == "NULL"

(***************************************************************************)
(* Character strings                                                       *)
(***************************************************************************)
UpperChars == <<"A","B","C","D","E","F","G","H","I","J","K","L","M",
                "N","O","P","Q","R","S","T","U","V","W","X","Y","Z">>
LowerChars == <<"a","b","c","d","e","f","g","h","i","j","k","l","m",
                "n","o","p","q","r","s","t","u","v","w","x","y","z">>
DigitChars == <<"0","1","2","3","4","5","6","7","8","9">>

Range(s) == { s[i] : i \in DOMAIN s }

\* String.prototype.toLowerCase on one character
LowerChar(c) ==
    IF \E i \in DOMAIN UpperChars : UpperChars[i] = c
    THEN LowerChars[CHOOSE i \in DOMAIN UpperChars : UpperChars[i] = c]
    ELSE c

toLowerCase(s) == [i \in DOMAIN s |-> LowerChar(s[i])]

\* does pattern p occur in s at position i
MatchAt(s, i, p) ==
    /\ i + Len(p) - 1 <= Len(s)
    /\ \A k \in 1..Len(p) : s[i + k - 1] = p[k]

\* the first alternative of ps that matches at i (<<>> when none);
\* ps is the ordered list of alternatives of the regular expression
FirstMatch(s, i, ps) ==
    IF \E k \in DOMAIN ps : MatchAt(s, i, ps[k])
    THEN LET k == CHOOSE j \in DOMAIN ps :
                     /\ MatchAt(s, i, ps[j])
                     /\ \A m \in 1..(j-1) : ~MatchAt(s, i, ps[m])
         IN ps[k]
    ELSE <<>>

RECURSIVE RemoveFrom(_, _, _)
\* s.replace(/p1|p2|.../g, '') scanning from position i: one left-to-right pass
RemoveFrom(s, i, ps) ==
    IF i > Len(s) THEN <<>>
    ELSE LET m == FirstMatch(s, i, ps)
         IN IF m # <<>> THEN RemoveFrom(s, i + Len(m), ps)
            ELSE <<s[i]>> \o RemoveFrom(s, i + 1, ps)

RemoveAll(s, ps) == RemoveFrom(s, 1, ps)

WhiteSpace == {" "}

RECURSIVE TrimLeft(_)
TrimLeft(s) == IF s # <<>> /\ Head(s) \in WhiteSpace THEN TrimLeft(Tail(s)) ELSE s

RECURSIVE TrimRight(_)
TrimRight(s) ==
    IF s # <<>> /\ s[Len(s)] \in WhiteSpace
    THEN TrimRight(SubSeq(s, 1, Len(s) - 1)) ELSE s

\* String.prototype.trim
Trim(s) == TrimRight(TrimLeft(s))

\* hostname.includes(baseUrl)
Includes(s, p) == \E i \in 1..(Len(s) - Len(p) + 1) : MatchAt(s, i, p)

CDataOpen  == <<"<","!","[","C","D","A","T","A","[">>
CDataClose == <<"]","]",">">>
EncodedPipe == <<"&","#","1","2","4",";">>
Pipe == <<"|">>
Untitled == <<"U","n","t","i","t","l","e","d">>
UnknownChannel == <<"U","n","k","n","o","w","n"," ","C","h","a","n","n","e","l">>
TablePrefix == <<"a","r","t","i","c","l","e","s","_">>

\* RSSReader.cleanTitle: a missing title (<<>>, like the empty string) is
\* 'Untitled'
cleanTitle(title) ==
    IF title = <<>> THEN Untitled
    ELSE Trim(RemoveAll(RemoveAll(RemoveAll(title, <<CDataOpen, CDataClose>>),
                                  <<EncodedPipe>>),
                        <<Pipe>>))

IsTableChar(c) == c \in Range(LowerChars) \cup Range(DigitChars)

\* .replace(/[^a-z0-9]/g, '_')
ReplaceSpecial(s) == [i \in DOMAIN s |-> IF IsTableChar(s[i]) THEN s[i] ELSE "_"]

RECURSIVE CollapseUnderscores(_)
\* .replace(/_+/g, '_')
CollapseUnderscores(s) ==
    IF Len(s) < 2 THEN s
    ELSE IF s[1] = "_" /\ s[2] = "_" THEN CollapseUnderscores(Tail(s))
    ELSE <<s[1]>> \o CollapseUnderscores(Tail(s))

\* .replace(/^_|_$/g, ''): one leading and one trailing underscore
StripEdgeUnderscores(s) ==
    LET a == IF s # <<>> /\ s[1] = "_" THEN Tail(s) ELSE s
    IN IF a # <<>> /\ a[Len(a)] = "_" THEN SubSeq(a, 1, Len(a) - 1) ELSE a

\* RSSReader.sanitizeTableName
sanitizeTableName(str) ==
    Trim(StripEdgeUnderscores(CollapseUnderscores(ReplaceSpecial(
        RemoveAll(RemoveAll(toLowerCase(str), <<Pipe>>), <<EncodedPipe>>)))))


(***************************************************************************)
(* Configuration and the outside world                                     *)
(***************************************************************************)
\* bound: worker-loop iterations explored
MaxRuns == 2
\* bound: adverse outcomes of the environment (network errors, storage
\* errors, lost connections, pages without content) per behaviour
MaxFaults == 1

\* pg Pool `max`
PoolMax == 10
\* LIMIT of the pending-article query
PendingLimit == 5

FeedTnc == "https://tnc.news/feed/"
FeedCbc == "https://www.cbc.ca/cmlink/rss-topstories"
\* index.js feedUrls
feedUrls == <<FeedTnc, FeedCbc>>

HostTnc == <<"t","n","c",".","n","e","w","s">>
HostCbc == <<"w","w","w",".","c","b","c",".","c","a">>
HostOther == <<"e","x","a","m","p","l","e",".","o","r","g">>
\* a host with a registered domain in the middle
HostMid == <<"c","b","c",".","c","a">> \o <<".">> \o HostOther
BaseTnc == <<"t","n","c",".","n","e","w","s">>
BaseCbc == <<"c","b","c",".","c","a">>

\* An article link.  A link that `new URL()` rejects has no scheme; an item
\* without <link> is NoLink.
Url(host, path) ==
    [scheme |-> "https", host |-> host, path |-> path, query |-> ""]
BadUrl(path) == [scheme |-> "", host |-> <<>>, path |-> path, query |-> ""]
NoLink == [scheme |-> "", host |-> <<>>, path |-> "", query |-> ""]

UrlA == Url(HostTnc, "/a")
UrlV == Url(HostTnc, "/v")
UrlN == Url(HostTnc, "/n")
SentinelPath == "/s"
UrlS == Url(HostTnc, SentinelPath)
UrlC == Url(HostCbc, "/c")
UrlO == Url(HostOther, "/o")
UrlM == BadUrl("/m")
UrlX == Url(HostMid, "/x")

\* Text values: the content column, scraped HTML, the model's markdown.
NullContent == [kind |-> "null", of |-> ""]
EmptyText == [kind |-> "text", of |-> ""]
VideoContent == [kind |-> "text", of |-> "Video Content"]
Html(x) == [kind |-> "html", of |-> x]
Md(x) == [kind |-> "md", of |-> x]
\* variant: no value is taken for falsy
TruthyAlways(c) == TRUE

\* JavaScript truthiness of a text value (undefined, null and '' are falsy)
Truthy(c) == c # NullContent /\ c # EmptyText

Item(link, title, pubDate, categories, contentEncoded) ==
    [link |-> link, title |-> title, pubDate |-> pubDate, dcDate |-> "",
     categories |-> categories, contentEncoded |-> contentEncoded,
     content |-> NullContent, description |-> NullContent]

\* the documents a feed endpoint may serve (what parser.parseURL yields);
\* a missing title or category list is <<>>, a missing date is ""
FeedDocs(feedUrl) ==
    IF feedUrl = FeedTnc THEN
      { [title |-> <<"T","N">>,
         items |-> << Item(UrlA, <<"A">>, "day1", <<>>, Html("a")),
                      Item(UrlV, <<"V">>, "day2", <<"Videos">>, NullContent) >>],
        [title |-> <<"T","N">>,
         items |-> << Item(UrlA, <<"A">>, "day1", <<>>, Html("a")),
                      Item(UrlA, <<"B","|">>, "day2", <<>>, Html("a")) >>],
        [title |-> <<"T","-","N">>,
         items |-> << Item(UrlA, <<"A">>, "day1", <<>>, Html("a")) >>],
        [title |-> <<"T","N">>,
         items |-> << Item(UrlA, <<"A">>, "day1", <<>>, Html("a")),
                      Item(UrlN, <<>>, "", <<>>, Html("n")) >>] }
    ELSE
      { [title |-> <<"C","B","C">>,
         items |-> << Item(UrlC, <<"C">>, "day1", <<>>, NullContent),
                      Item(UrlO, <<"O">>, "day2", <<>>, NullContent) >>],
        [title |-> <<"T"," ","N">>,
         items |-> << Item(UrlC, <<"C">>, "day2", <<>>, NullContent),
                      Item(UrlM, <<"M">>, "day1", <<>>, NullContent),
                      Item(UrlX, <<"X">>, "day1", <<>>, NullContent) >>] }

\* the publication days a feed item may carry, oldest first
Days == <<"day1", "day2", "day3", "day4", "day5", "day6", "day7">>

\* a feed with more items than one pending query returns: the n-th item of
\* hosts is on host hosts[n] and is published on day Len(hosts) + 1 - n
BacklogItems(hosts) ==
    [n \in DOMAIN hosts |->
        Item(Url(hosts[n], Days[n]), <<"I">>, Days[Len(hosts) + 1 - n], <<>>,
             NullContent)]

\* the documents the endpoints serve while the sources carry a backlog:
\* two tnc.news items, one of them the page that reads 'Video Content', or
\* a retitled tnc.news feed without items; and
\* five newest items without scraper ahead of two cbc.ca items, or four
\* newest items without scraper ahead of two cbc.ca items
BacklogDocs(feedUrl) ==
    IF feedUrl = FeedTnc THEN
      { [title |-> <<"T","N">>,
         items |-> << Item(UrlA, <<"A">>, "day2", <<>>, Html("a")),
                      Item(UrlS, <<"S">>, "day1", <<>>, Html("s")) >>],
        [title |-> <<"T","-","N">>, items |-> <<>>] }
    ELSE
      { [title |-> <<"C","B","C">>,
         items |-> BacklogItems(<<HostOther, HostOther, HostOther, HostOther,
                                  HostOther, HostCbc, HostCbc>>)],
        [title |-> <<"C","B","C">>,
         items |-> BacklogItems(<<HostOther, HostOther, HostOther, HostOther,
                                  HostCbc, HostCbc>>)] }

\* what the content container of the page behind an article URL holds: the
\* container of the page at SentinelPath is the text 'Video Content'
PageContent(url) ==
    IF url.path = SentinelPath THEN VideoContent ELSE Html(url.path)

\* the inference service's answer to a well-formed request
ModelAnswer(content) == Md(content.of)

(***************************************************************************)
(* Storage: the sources table and the per-source article tables            *)
(***************************************************************************)
DayNumber == [d \in Range(Days) |-> CHOOSE i \in DOMAIN Days : Days[i] = d]

\* new Date(x): an absent date string gives an Invalid Date
NewDate(x) ==
    IF x \in DOMAIN DayNumber THEN [valid |-> TRUE, day |-> DayNumber[x]]
    ELSE [valid |-> FALSE, day |-> 0]

\* a || b on lists and character strings (the empty one is falsy)
OrElse(a, b) == IF a = <<>> THEN b ELSE a
\* a || b on date strings
OrElseDate(a, b) == IF a = "" THEN b ELSE a

HasTable(d, t) == t \in DOMAIN d.tables

\* variant: storeFeedSource without its CREATE TABLE statement
CreateTableSkipped(d, t) == d

\* CREATE TABLE IF NOT EXISTS <t>
CreateTable(d, t) ==
    IF HasTable(d, t) THEN d
    ELSE [d EXCEPT !.tables = [x \in DOMAIN d.tables \cup {t} |->
                                  IF x = t THEN <<>> ELSE d.tables[x]]]

\* variant: sources without its unique constraints
SourceConflictNever(d, src) == FALSE

\* INSERT INTO sources ... ON CONFLICT (url) DO UPDATE: does it violate the
\* unique constraint on channel_name or on articles_table
SourceConflict(d, src) ==
    \E r \in d.sources :
        /\ r.url # src.url
        /\ \/ r.channel_name = src.channel_name
           \/ r.articles_table = src.articles_table

\* variant: a plain INSERT, the row of the URL is not replaced
UpsertSourceAdding(d, src) == [d EXCEPT !.sources = @ \cup {src}]

\* ON CONFLICT (url) DO UPDATE SET channel_name, articles_table
UpsertSource(d, src) ==
    [d EXCEPT !.sources = { r \in d.sources : r.url # src.url } \cup {src}]

RowOf(rows, url) == CHOOSE i \in DOMAIN rows : rows[i].url = url

\* INSERT INTO <t> (url, title, date_added): does the statement fail
\* (url NOT NULL, date_added a valid date)
ArticleError(d, t, a) ==
    \/ ~HasTable(d, t)
    \/ a.url = NoLink
    \/ ~a.date_added.valid

NewRow(rows, a) ==
    [id |-> Len(rows) + 1, url |-> a.url, title |-> a.title,
     date_added |-> a.date_added.day, content |-> NullContent,
     summary |-> NULL, scrape_check |-> NULL]

\* variant: ON CONFLICT (url) DO NOTHING
UpsertRowsKeeping(rows, a) ==
    IF \E i \in DOMAIN rows : rows[i].url = a.url THEN rows
    ELSE Append(rows, NewRow(rows, a))

\* variant: the conflicting row is replaced by a fresh one (content lost)
UpsertRowsReplacing(rows, a) ==
    IF \E i \in DOMAIN rows : rows[i].url = a.url
    THEN [rows EXCEPT ![RowOf(rows, a.url)] =
              [NewRow(rows, a) EXCEPT !.id = rows[RowOf(rows, a.url)].id]]
    ELSE Append(rows, NewRow(rows, a))

\* variant: no conflict target, every article is inserted
UpsertRowsAppending(rows, a) == Append(rows, NewRow(rows, a))

\* variant: the conflict branch also sets scrape_check = 0
UpsertRowsResettingCheck(rows, a) ==
    IF \E i \in DOMAIN rows : rows[i].url = a.url
    THEN [rows EXCEPT ![RowOf(rows, a.url)] =
              [@ EXCEPT !.title = a.title, !.date_added = a.date_added.day,
                        !.scrape_check = 0]]
    ELSE Append(rows, NewRow(rows, a))

\* variant: SET title = title || EXCLUDED.title
UpsertRowsConcatenating(rows, a) ==
    IF \E i \in DOMAIN rows : rows[i].url = a.url
    THEN [rows EXCEPT ![RowOf(rows, a.url)] =
              [@ EXCEPT !.title = @ \o a.title,
                        !.date_added = a.date_added.day]]
    ELSE Append(rows, NewRow(rows, a))

\* ON CONFLICT (url) DO UPDATE SET title, date_added
UpsertRows(rows, a) ==
    IF \E i \in DOMAIN rows : rows[i].url = a.url
    THEN [rows EXCEPT ![RowOf(rows, a.url)] =
              [@ EXCEPT !.title = a.title, !.date_added = a.date_added.day]]
    ELSE Append(rows, NewRow(rows, a))

UpsertArticle(d, t, a) == [d EXCEPT !.tables[t] = UpsertRows(@, a)]

\* variant: the UPDATE without its WHERE clause
UpdateContentEveryRow(d, t, id, c) ==
    [d EXCEPT !.tables[t] = [i \in DOMAIN @ |-> [@[i] EXCEPT !.content = c]]]

\* UPDATE <t> SET content = $1 WHERE id = $2
UpdateContent(d, t, id, c) ==
    [d EXCEPT !.tables[t] =
        [i \in DOMAIN @ |-> IF @[i].id = id THEN [@[i] EXCEPT !.content = c]
                            ELSE @[i]]]

\* variant: no ROLLBACK, what the failed batch wrote stays
RollbackMissing(before, now) == now

\* ROLLBACK: the state of BEGIN is restored
Rollback(before, now) == before


(***************************************************************************)
(* RSSReader.pullAndParseFeed                                              *)
(***************************************************************************)
ParseItem(item) ==
    [url |-> item.link,
     title |-> cleanTitle(item.title),
     date_added |-> NewDate(OrElseDate(item.pubDate, item.dcDate)),
     categories |-> item.categories,
     contentEncoded |-> item.contentEncoded,
     content |-> IF Truthy(item.content) THEN item.content ELSE item.description]

ParseFeed(feedUrl, feed) ==
    LET channelName == cleanTitle(OrElse(feed.title, UnknownChannel))
        articlesTable == TablePrefix \o sanitizeTableName(channelName)
    IN [source |-> [url |-> feedUrl, channel_name |-> channelName,
                    articles_table |-> articlesTable],
        articles |-> [i \in DOMAIN feed.items |-> ParseItem(feed.items[i])]]

NoFeedData == [source |-> [url |-> "", channel_name |-> <<>>,
                           articles_table |-> <<>>],
               articles |-> <<>>]

(***************************************************************************)
(* RSSReader.storeFeedSource: statements 1 BEGIN, 2 CREATE TABLE,          *)
(* 3 source upsert, 3+k insert of article k, n+4 COMMIT                    *)
(***************************************************************************)
StoreLast(fd) == Len(fd.articles) + 4

\* does statement i fail on its own (constraint violation, bad value)
StoreError(d, fd, i) ==
    \/ i = 3 /\ SourceConflict(d, fd.source)
    \/ /\ i > 3 /\ i < StoreLast(fd)
       /\ ArticleError(d, fd.source.articles_table, fd.articles[i - 3])

StoreStatement(d, fd, i) ==
    IF i = 2 THEN CreateTable(d, fd.source.articles_table)
    ELSE IF i = 3 THEN UpsertSource(d, fd.source)
    ELSE IF i > 3 /\ i < StoreLast(fd)
         THEN UpsertArticle(d, fd.source.articles_table, fd.articles[i - 3])
    ELSE d

RECURSIVE StoreFrom(_, _, _, _)
\* run the statements from i on; inj is the statement an outside fault hits
\* (0: none).  failed is the statement that threw (0: committed).
StoreFrom(d, fd, i, inj) ==
    IF i > StoreLast(fd) THEN [db |-> d, failed |-> 0]
    ELSE IF i = inj \/ StoreError(d, fd, i) THEN [db |-> d, failed |-> i]
    ELSE StoreFrom(StoreStatement(d, fd, i), fd, i + 1, inj)

(***************************************************************************)
(* ArticlesScraper queries                                                 *)
(***************************************************************************)
CodeOrder == <<" ","!","#","&","-",".">> \o DigitChars \o <<";","<",">">>
             \o UpperChars \o <<"[","]","_">> \o LowerChars \o <<"|">>
CharCode(c) == CHOOSE i \in DOMAIN CodeOrder : CodeOrder[i] = c

RECURSIVE StrLess(_, _)
\* a < b, comparing character codes
StrLess(a, b) ==
    IF b = <<>> THEN FALSE
    ELSE IF a = <<>> THEN TRUE
    ELSE IF a[1] = b[1] THEN StrLess(Tail(a), Tail(b))
    ELSE CharCode(a[1]) < CharCode(b[1])

\* SELECT articles_table FROM sources ORDER BY channel_name
getArticleTables(d) ==
    LET n == Cardinality(d.sources)
        ordered == CHOOSE f \in [1..n -> d.sources] :
                      /\ \A i, j \in 1..n : i # j => f[i] # f[j]
                      /\ \A i \in 1..(n-1) :
                             ~StrLess(f[i+1].channel_name, f[i].channel_name)
    IN [i \in 1..n |-> ordered[i].articles_table]

Min(a, b) == IF a < b THEN a ELSE b

RECURSIVE OldestFirst(_, _)
\* variant: ORDER BY date_added ASC
OldestFirst(rows, S) ==
    IF S = {} THEN { <<>> }
    ELSE UNION { { <<i>> \o o : o \in OldestFirst(rows, S \ {i}) } :
                 i \in { i \in S : \A j \in S :
                            rows[i].date_added <= rows[j].date_added } }

RECURSIVE NewestFirst(_, _)
\* ORDER BY date_added DESC over the rows at positions S: every order the
\* query may return (rows of equal date come in any order)
NewestFirst(rows, S) ==
    IF S = {} THEN { <<>> }
    ELSE UNION { { <<i>> \o o : o \in NewestFirst(rows, S \ {i}) } :
                 i \in { i \in S : \A j \in S :
                            rows[i].date_added >= rows[j].date_added } }

\* variant: the query without WHERE content IS NULL
getUnprocessedArticlesUnfiltered(d, t) ==
    LET rows == d.tables[t]
        n == Len(rows)
    IN { [k \in 1..Min(n, PendingLimit) |->
             [id |-> rows[f[k]].id, url |-> rows[f[k]].url,
              title |-> rows[f[k]].title]] :
         f \in NewestFirst(rows, DOMAIN rows) }

\* SELECT id, url, title FROM <t> WHERE content IS NULL
\* ORDER BY date_added DESC LIMIT 5
getUnprocessedArticles(d, t) ==
    LET rows == d.tables[t]
        pending == { i \in DOMAIN rows : rows[i].content = NullContent }
        n == Cardinality(pending)
    IN { [k \in 1..Min(n, PendingLimit) |->
             [id |-> rows[f[k]].id, url |-> rows[f[k]].url,
              title |-> rows[f[k]].title]] :
         f \in NewestFirst(rows, pending) }

\* ArticlesScraper.scrapers, in registration order
scrapers == << [baseUrl |-> BaseTnc, scraper |-> "trueNorth"],
               [baseUrl |-> BaseCbc, scraper |-> "cbc"] >>

\* new URL(url) succeeds
ValidUrl(url) == url.scheme # ""

\* variant: a URL no scraper matches falls back to the last scraper
getScraperForUrlDefaulting(url) ==
    IF ~ValidUrl(url) THEN scrapers[Len(scrapers)].scraper
    ELSE LET hostname == toLowerCase(url.host)
             hits == { k \in DOMAIN scrapers :
                          Includes(hostname, scrapers[k].baseUrl) }
         IN IF hits = {} THEN scrapers[Len(scrapers)].scraper
            ELSE scrapers[CHOOSE k \in hits : \A m \in hits : k <= m].scraper

\* ArticlesScraper.getScraperForUrl: "none" is null
getScraperForUrl(url) ==
    IF ~ValidUrl(url) THEN "none"
    ELSE LET hostname == toLowerCase(url.host)
             hits == { k \in DOMAIN scrapers :
                          Includes(hostname, scrapers[k].baseUrl) }
         IN IF hits = {} THEN "none"
            ELSE scrapers[CHOOSE k \in hits : \A m \in hits : k <= m].scraper

\* trueNorthNewsScraper.isVideoContent
isVideoContent(categories) ==
    \E i \in DOMAIN categories : categories[i] \in {"Podcasts", "Videos"}

\* the article object processArticle hands to scraper.scrape: a row of the
\* pending query, which has id, url and title only
ArticleField(article, f) ==
    IF f \in DOMAIN article THEN article[f]
    ELSE IF f = "categories" THEN <<>> ELSE NullContent

\* trueNorth.scrape working from the feed fields of the article:
\* "throw" when it raises
ScrapeFromFeed(article) ==
    IF isVideoContent(ArticleField(article, "categories")) THEN VideoContent
    ELSE IF Truthy(ArticleField(article, "contentEncoded"))
         THEN ArticleField(article, "contentEncoded")
    ELSE IF Truthy(ArticleField(article, "content"))
         THEN ArticleField(article, "content")
    ELSE [kind |-> "throw", of |-> "No content available"]

\* CBCNewsScraper.cleanUrl: url.split('?')[0]
cleanUrl(url) == [url EXCEPT !.query = ""]

\* scrape by fetching the page (cbc.scrape, and trueNorth.scrape in its
\* fetching version): page is the outcome of the request; extractMainContent
\* gives null for a page without container and '' for an empty container
ScrapeFromPage(url, page) ==
    IF page = "neterr" THEN [kind |-> "throw", of |-> "fetch failed"]
    ELSE IF page = "notok" THEN [kind |-> "throw", of |-> "HTTP error"]
    ELSE IF page \in {"nocontainer", "empty"}
         THEN [kind |-> "throw", of |-> "No content extracted from HTML"]
    ELSE PageContent(url)

\* variant: processArticle without the check for the sentinel
IsSentinelNever(htmlContent) == FALSE

\* processArticle: htmlContent === 'Video Content'
IsSentinel(htmlContent) == htmlContent = VideoContent

\* variant: a raised error is taken for a returned value
ThrewNever(x) == FALSE

Threw(x) == x.kind = "throw"

\* ollama.sendToModel: answer is the outcome of the request
sendToModel(model, content, answer) ==
    IF model = "" THEN [kind |-> "throw", of |-> "Model name is required"]
    ELSE IF ~Truthy(content)
         THEN [kind |-> "throw", of |-> "Content is required"]
    ELSE IF answer = "neterr" THEN [kind |-> "throw", of |-> "fetch failed"]
    ELSE IF answer = "notok" THEN [kind |-> "throw", of |-> "HTTP error"]
    ELSE IF answer = "nocontent"
         THEN [kind |-> "throw", of |-> "No content in Ollama response"]
    ELSE ModelAnswer(content)

\* variant: the catch returns nothing instead of the HTML
convertToMarkdownDropping(model, html, answer) ==
    LET markdownContent == sendToModel(model, html, answer)
    IN IF Threw(markdownContent) THEN NullContent ELSE markdownContent

\* ArticlesScraper.convertToMarkdown
convertToMarkdown(model, html, answer) ==
    LET markdownContent == sendToModel(model, html, answer)
    IN IF Threw(markdownContent) THEN html ELSE markdownContent


(***************************************************************************)
(* Content extraction of the two scrapers, on the characters of the page   *)
(***************************************************************************)
\* String.prototype.indexOf(p, from): 0-based, -1 when p does not occur
IndexOf(s, p, from) ==
    LET hits == { i \in from..(Len(s) - Len(p)) : MatchAt(s, i + 1, p) }
    IN IF hits = {} THEN -1
       ELSE CHOOSE i \in hits : \A j \in hits : i <= j

\* String.prototype.lastIndexOf(p, from)
LastIndexOf(s, p, from) ==
    LET hits == { i \in 0..Min(from, Len(s) - Len(p)) : MatchAt(s, i + 1, p) }
    IN IF hits = {} THEN -1
       ELSE CHOOSE i \in hits : \A j \in hits : i >= j

\* an index argument of substring: below 0 is 0, above the length is the
\* length
Clamp(s, a) == IF a < 0 THEN 0 ELSE Min(a, Len(s))

\* String.prototype.substring(a, b): the arguments are clamped and swapped
\* when a > b
Substring(s, a, b) ==
    LET lo == Min(Clamp(s, a), Clamp(s, b))
        hi == IF Clamp(s, a) < Clamp(s, b) THEN Clamp(s, b) ELSE Clamp(s, a)
    IN SubSeq(s, lo + 1, hi)

RoleMain == <<"r","o","l","e","=","\"","m","a","i","n","\"">>
DivOpen == <<"<","d","i","v">>
DivClose == <<"<","/","d","i","v",">">>
MainOpen == <<"<","m","a","i","n">>
MainClose == <<"<","/","m","a","i","n",">">>
DetailOpen == DivOpen \o <<" ","i","d","=","\"","d","e","t","a","i","l",
                           "C","o","n","t","e","n","t","\"">>
ContentId == <<"i","d","=","\"","c","o","n","t","e","n","t","\"">>
Gt == <<">">>

\* what extractMainContent returns: null or a string
NoText == [kind |-> "null", text |-> <<>>]
Text(t) == [kind |-> "text", text |-> t]
NotExtracted == [kind |-> "pending", text |-> <<>>]

RECURSIVE BalancedEnd(_, _, _, _, _)
\* the while loop of extractMainContent: from pos on, an opening tag adds
\* one to depth and a closing tag takes one off, until depth is 0 or pos is
\* at the end of the page; the position reached, or -1 when the loop meets
\* no closing tag ahead
BalancedEnd(s, open, close, pos, depth) ==
    IF depth > 0 /\ pos < Len(s)
    THEN LET closeTag == IndexOf(s, close, pos)
             openTag == IndexOf(s, open, pos)
         IN IF closeTag = -1 THEN -1
            ELSE IF openTag = -1 \/ closeTag < openTag
                 THEN BalancedEnd(s, open, close, closeTag + Len(close),
                                  depth - 1)
            ELSE BalancedEnd(s, open, close, openTag + Len(open), depth + 1)
    ELSE pos

\* trueNorthNewsScraper.extractMainContent (the fetching version)
trueNorthExtractMainContent(html) ==
    LET mainDivStart == IndexOf(html, RoleMain, 0)
        divStart == LastIndexOf(html, DivOpen, mainDivStart)
        divTagEnd == IndexOf(html, Gt, divStart) + 1
        divEnd == BalancedEnd(html, DivOpen, DivClose, divTagEnd, 1)
        content == Substring(html, divTagEnd, divEnd - Len(DivClose))
    IN IF mainDivStart = -1 THEN NoText
       ELSE IF divStart = -1 THEN NoText
       ELSE IF divEnd = -1 THEN NoText
       ELSE IF content = <<>> THEN NoText
       ELSE Text(content)

\* CBCNewsScraper.extractMainContent: the second part, inside the content
\* of <main>
cbcDetailContent(mainContent) ==
    LET detailStart == IndexOf(mainContent, DetailOpen, 0)
        divTagEnd == IndexOf(mainContent, Gt, detailStart) + 1
        divEnd == BalancedEnd(mainContent, DivOpen, DivClose, divTagEnd, 1)
    IN IF detailStart = -1 THEN Text(mainContent)
       ELSE IF divEnd = -1 THEN Text(mainContent)
       ELSE Text(Substring(mainContent, divTagEnd, divEnd - Len(DivClose)))

\* CBCNewsScraper.extractMainContent
cbcExtractMainContent(html) ==
    LET mainStart == IndexOf(html, MainOpen, 0)
        mainTagEnd == IndexOf(html, Gt, mainStart) + 1
        mainEnd == BalancedEnd(html, MainOpen, MainClose, mainTagEnd, 1)
    IN IF mainStart = -1 THEN NoText
       ELSE IF mainEnd = -1 THEN NoText
       ELSE cbcDetailContent(Substring(html, mainTagEnd,
                                       mainEnd - Len(MainClose)))

\* the pieces pages are made of
TokenText(tok) ==
    IF tok = "OM" THEN DivOpen \o <<" ">> \o RoleMain \o Gt
    ELSE IF tok = "O" THEN DivOpen \o Gt
    ELSE IF tok = "C" THEN DivClose
    ELSE IF tok = "D" THEN DetailOpen \o Gt
    ELSE IF tok = "K" THEN DivOpen \o <<" ">> \o ContentId \o Gt
    ELSE IF tok = "M" THEN MainOpen \o Gt
    ELSE IF tok = "MC" THEN MainClose
    ELSE <<"a">>

RECURSIVE PageText(_)
\* response.text() of a page given by its pieces
PageText(toks) ==
    IF toks = <<>> THEN <<>> ELSE TokenText(Head(toks)) \o PageText(Tail(toks))

\* bound: number of pieces of a page (inside <main> for a cbc.ca page)
MaxPageTokens == 3

\* tnc.news pages: a marked div, plain divs, closing tags and text
TnPages ==
    UNION { [1..k -> {"OM", "O", "C", "T"}] : k \in 0..MaxPageTokens }

\* cbc.ca pages: a detailContent div, an id="content" div, plain divs,
\* closing tags and text, bare, inside <main>..</main>, or after a <main>
\* that is not closed
CbcPages ==
    LET bodies == UNION { [1..k -> {"D", "K", "O", "C", "T"}] :
                          k \in 0..MaxPageTokens }
    IN bodies \cup { <<"M">> \o b \o <<"MC">> : b \in bodies }
              \cup { <<"M">> \o b : b \in bodies }

NoPage == [for |-> "", tokens |-> <<>>]

(***************************************************************************)
(* The worker                                                              *)
(***************************************************************************)
VARIABLES
    db,          \* committed storage: [sources, tables]
    pc,          \* where the worker is
    run,         \* worker-loop iteration
    faults,      \* adverse outcomes so far
    checkedOut,  \* pool clients checked out and not released
    feedIdx,     \* position in sourceUrls
    feedData,    \* result of pullAndParseFeed
    tableList,   \* result of getArticleTables
    tblIdx,      \* position in tableList
    batch,       \* result of getUnprocessedArticles
    artIdx,      \* position in batch
    attempted,   \* ids processArticle was called with in this table pass
    raw,         \* htmlContent
    toStore,     \* the value of the content UPDATE
    tnVersion,   \* which trueNorth.js is deployed: "feed" or "fetch"
    modelName,   \* process.env.OLLAMA_HTML_READER ("" when unset)
    feedSet,     \* what the feed endpoints serve: "regular" or "backlog"
    ev,          \* the last operation and how it ended
    titleIn,     \* feed.title of two feeds whose identifiers are derived
    derived,     \* the source records pullAndParseFeed derives from them
    htmlIn,      \* a page a scraper has fetched, for extractMainContent
    extracted,   \* what extractMainContent returns for it
    iteration    \* how this feedWorker call has ended, "running" until then

vars == <<db, pc, run, faults, checkedOut, feedIdx, feedData, tableList,
          tblIdx, batch, artIdx, attempted, raw, toStore, tnVersion,
          modelName, feedSet, ev, titleIn, derived, htmlIn, extracted,
          iteration>>

config == <<tnVersion, modelName, feedSet>>
titles == <<titleIn, derived>>
pages == <<htmlIn, extracted>>
ingest == <<feedIdx, feedData>>
enrich == <<tableList, tblIdx, batch, artIdx, attempted, raw, toStore>>

\* at: the statement of storeFeedSource that threw (0 otherwise)
EventAt(op, res, at) == [op |-> op, res |-> res, at |-> at]
Event(op, res) == EventAt(op, res, 0)

\* the schema of db.sql is in place: sources exists and is empty
Init ==
    /\ db = [sources |-> {}, tables |-> << >>]
    /\ pc = "start"
    /\ run = 1
    /\ faults = 0
    /\ checkedOut = 0
    /\ feedIdx = 0
    /\ feedData = NoFeedData
    /\ tableList = <<>>
    /\ tblIdx = 0
    /\ batch = <<>>
    /\ artIdx = 0
    /\ attempted = {}
    /\ raw = NullContent
    /\ toStore = NullContent
    /\ tnVersion \in {"feed", "fetch"}
    /\ modelName \in {"reader-lm", ""}
    /\ feedSet = "regular"
    /\ ev = Event("init", "ok")
    /\ titleIn = <<>>
    /\ derived = <<>>
    /\ htmlIn = NoPage
    /\ extracted = NotExtracted
    /\ iteration = "running"

\* feedWorker's try ran to its end ('Article processing completed')
WorkerCompleted == "completed"
\* feedWorker's catch ('Worker failed')
WorkerFailed == "failed"

CanFault == faults < MaxFaults
\* pool.connect() resolves only while a client is free
CanConnect == checkedOut < PoolMax

\* variant: the client is not given back
ReleaseNever(n) == n

\* client.release()
Release(n) == n - 1

\* dbCon.initializeDatabase -> testConnection: the client is released only
\* when the probe query succeeds
InitializeDatabase ==
    /\ pc = "start"
    /\ CanConnect
    /\ \E res \in {"ok", "connect", "query"} :
         /\ res # "ok" => CanFault
         /\ faults' = IF res = "ok" THEN faults ELSE faults + 1
         /\ checkedOut' = IF res = "ok" THEN Release(checkedOut + 1)
                          ELSE IF res = "query" THEN checkedOut + 1
                          ELSE checkedOut
         /\ pc' = IF res = "ok" THEN "init" ELSE "sleep"
         /\ ev' = Event("initializeDatabase", res)
         /\ iteration' = IF res = "ok" THEN iteration ELSE WorkerFailed
    /\ UNCHANGED <<db, run, ingest, enrich, config, titles, pages>>

\* RSSReader.initialize -> testDatabaseConnection: CREATE TABLE IF NOT
\* EXISTS sources in a transaction
Initialize ==
    /\ pc = "init"
    /\ CanConnect
    /\ \E res \in {"ok", "connect", "query"} :
         /\ res # "ok" => CanFault
         /\ faults' = IF res = "ok" THEN faults ELSE faults + 1
         /\ checkedOut' = IF res = "connect" THEN checkedOut
                          ELSE Release(checkedOut + 1)
         /\ pc' = IF res = "ok" THEN "pull" ELSE "sleep"
         /\ feedIdx' = IF res = "ok" THEN 1 ELSE feedIdx
         /\ ev' = Event("initialize", res)
         /\ iteration' = IF res = "ok" THEN iteration ELSE WorkerFailed
    /\ db' = db
    /\ UNCHANGED <<run, feedData, enrich, config, titles, pages>>

\* variant: the loop of processFeedSources logs the error and goes on
FeedErrorSwallowed(idx) == IF idx < Len(feedUrls) THEN "pull" ELSE "list"

\* variant: feedWorker catches the error of processFeedSources and goes on
\* to processAllTables
FeedErrorThenEnrich(idx) == "list"

\* an error of pullAndParseFeed or storeFeedSource: both rethrow, the catch
\* of processFeedSources rethrows, and feedWorker's catch ends the iteration
FeedErrorThrown(idx) == "sleep"

\* parser.parseURL(feedUrl): the documents the endpoint may answer with
ParseURL(feedUrl) ==
    IF feedSet = "backlog" THEN BacklogDocs(feedUrl) ELSE FeedDocs(feedUrl)

\* RSSReader.pullAndParseFeed(sourceUrls[feedIdx])
PullAndParseFeed ==
    /\ pc = "pull"
    /\ \/ \E feed \in ParseURL(feedUrls[feedIdx]) :
            /\ feedData' = ParseFeed(feedUrls[feedIdx], feed)
            /\ pc' = "store"
            /\ ev' = Event("pull", "ok")
            /\ UNCHANGED <<faults, iteration>>
       \/ /\ CanFault
          /\ faults' = faults + 1
          /\ feedData' = NoFeedData
          /\ pc' = FeedErrorThrown(feedIdx)
          /\ ev' = Event("pull", "throw")
          /\ iteration' = WorkerFailed
    /\ UNCHANGED <<db, run, checkedOut, feedIdx, enrich, config, titles, pages>>

\* RSSReader.storeFeedSource(feedData), and processFeedSources' loop step
StoreFeedSource ==
    /\ pc = "store"
    /\ CanConnect
    /\ \/ \E inj \in 0..StoreLast(feedData) :
            LET r == StoreFrom(db, feedData, 1, inj)
            IN /\ inj # 0 => (CanFault /\ r.failed = inj
                              /\ ~StoreError(r.db, feedData, inj))
               /\ faults' = IF inj = 0 THEN faults ELSE faults + 1
               /\ checkedOut' = Release(checkedOut + 1)
               /\ IF r.failed = 0
                  THEN /\ db' = r.db
                       /\ ev' = Event("store", "commit")
                       /\ iteration' = iteration
                       /\ feedIdx' = feedIdx + 1
                       /\ pc' = IF feedIdx < Len(feedUrls) THEN "pull"
                                ELSE "list"
                  ELSE /\ db' = Rollback(db, r.db)
                       /\ ev' = EventAt("store", "throw", r.failed)
                       /\ iteration' = WorkerFailed
                       /\ feedIdx' = feedIdx
                       /\ pc' = FeedErrorThrown(feedIdx)
       \/ /\ CanFault
          /\ faults' = faults + 1
          /\ ev' = Event("store", "connect")
          /\ iteration' = WorkerFailed
          /\ pc' = FeedErrorThrown(feedIdx)
          /\ UNCHANGED <<db, checkedOut, feedIdx>>
    /\ UNCHANGED <<run, feedData, enrich, config, titles, pages>>

\* where processAllTables goes once table m-1 is done
AfterTable(m) ==
    /\ tblIdx' = m
    /\ pc' = IF m <= Len(tableList) THEN "fetch" ELSE "sleep"
    /\ iteration' = IF m <= Len(tableList) THEN iteration ELSE WorkerCompleted

\* where processTable goes once article n-1 is done
AfterArticle(n) ==
    /\ artIdx' = n
    /\ IF n <= Len(batch)
       THEN pc' = "article" /\ tblIdx' = tblIdx /\ iteration' = iteration
       ELSE AfterTable(tblIdx + 1)

\* variant: processArticle rethrows, so processTable's catch ends the batch
ArticleRethrown(idx, len) == len + 1

\* processArticle's catch: the error is logged and the loop of processTable
\* goes on with the next article
ArticleCaught(idx, len) == idx + 1

\* processTable's catch: the error is logged and the loop of
\* processAllTables goes on with the next table
TableCaught(idx, len) == idx + 1

\* variant: processAllTables lets the error of getArticleTables through
TablesErrorRethrown == WorkerFailed

\* processAllTables' catch: the error is logged and processAllTables
\* returns, so feedWorker's try runs to its end
TablesErrorCaught == WorkerCompleted

\* ArticlesScraper.processAllTables -> getArticleTables
GetArticleTables ==
    /\ pc = "list"
    /\ CanConnect
    /\ \/ /\ tableList' = getArticleTables(db)
          /\ ev' = Event("getArticleTables", "ok")
          /\ tblIdx' = 1
          /\ pc' = IF db.sources = {} THEN "sleep" ELSE "fetch"
          /\ iteration' = IF db.sources = {} THEN WorkerCompleted ELSE iteration
          /\ checkedOut' = Release(checkedOut + 1)
          /\ UNCHANGED faults
       \/ /\ CanFault
          /\ faults' = faults + 1
          /\ \E res \in {"connect", "query"} :
               /\ ev' = Event("getArticleTables", res)
               /\ checkedOut' = IF res = "connect" THEN checkedOut
                                ELSE Release(checkedOut + 1)
          /\ tableList' = <<>>
          /\ tblIdx' = 0
          /\ pc' = "sleep"
          /\ iteration' = TablesErrorCaught
    /\ feedData' = NoFeedData
    /\ feedIdx' = 0
    /\ UNCHANGED <<db, run, batch, artIdx, attempted, raw, toStore, config, titles, pages>>

\* ArticlesScraper.processTable -> getUnprocessedArticles
GetUnprocessedArticles ==
    /\ pc = "fetch"
    /\ CanConnect
    /\ \/ /\ IF HasTable(db, tableList[tblIdx])
             THEN \E b \in getUnprocessedArticles(db, tableList[tblIdx]) :
                    /\ batch' = b
                    /\ ev' = Event("getUnprocessedArticles", "ok")
                    /\ IF Len(b) = 0
                       THEN AfterTable(tblIdx + 1) /\ artIdx' = 0
                       ELSE /\ pc' = "article" /\ artIdx' = 1
                            /\ tblIdx' = tblIdx /\ iteration' = iteration
             ELSE /\ batch' = <<>>
                  /\ artIdx' = 0
                  /\ ev' = Event("getUnprocessedArticles", "query")
                  /\ AfterTable(TableCaught(tblIdx, Len(tableList)))
          /\ checkedOut' = Release(checkedOut + 1)
          /\ UNCHANGED faults
       \/ /\ CanFault
          /\ faults' = faults + 1
          /\ \E res \in {"connect", "query"} :
               /\ ev' = Event("getUnprocessedArticles", res)
               /\ checkedOut' = IF res = "connect" THEN checkedOut
                                ELSE Release(checkedOut + 1)
          /\ batch' = <<>>
          /\ artIdx' = 0
          /\ AfterTable(TableCaught(tblIdx, Len(tableList)))
    /\ attempted' = {}
    /\ UNCHANGED <<db, run, ingest, tableList, raw, toStore, config, titles, pages>>

\* scraper.scrape(article.url, article) for the scraper sc
Scrape(sc, article, page) ==
    IF sc = "trueNorth" /\ tnVersion = "feed" THEN ScrapeFromFeed(article)
    ELSE IF sc = "cbc" THEN ScrapeFromPage(cleanUrl(article.url), page)
    ELSE ScrapeFromPage(article.url, page)

\* does the scraper sc make a request
Fetches(sc) == ~(sc = "trueNorth" /\ tnVersion = "feed")

\* ArticlesScraper.processArticle up to the end of scraper.scrape
ScrapeArticle ==
    /\ pc = "article"
    /\ LET article == batch[artIdx]
           sc == getScraperForUrl(article.url)
       IN /\ attempted' = attempted \cup {article.id}
          /\ IF sc = "none"
             THEN /\ ev' = Event("processArticle", "skipped")
                  /\ AfterArticle(artIdx + 1)
                  /\ UNCHANGED <<faults, raw, toStore>>
             ELSE \E page \in {"ok", "neterr", "notok", "nocontainer", "empty"} :
                    LET htmlContent == Scrape(sc, article, page)
                    IN /\ page # "ok" => (CanFault /\ Fetches(sc))
                       /\ faults' = IF page = "ok" THEN faults ELSE faults + 1
                       /\ IF Threw(htmlContent)
                          THEN /\ ev' = Event("scrape", "throw")
                               /\ AfterArticle(ArticleCaught(artIdx, Len(batch)))
                               /\ UNCHANGED <<raw, toStore>>
                          ELSE IF IsSentinel(htmlContent)
                          THEN /\ ev' = Event("scrape", "video")
                               /\ raw' = htmlContent
                               /\ toStore' = VideoContent
                               /\ pc' = "write"
                               /\ UNCHANGED <<artIdx, tblIdx, iteration>>
                          ELSE IF ~Truthy(htmlContent)
                          THEN /\ ev' = Event("scrape", "empty")
                               /\ AfterArticle(artIdx + 1)
                               /\ UNCHANGED <<raw, toStore>>
                          ELSE /\ ev' = Event("scrape", "ok")
                               /\ raw' = htmlContent
                               /\ pc' = "normalize"
                               /\ UNCHANGED <<artIdx, tblIdx, toStore, iteration>>
    /\ UNCHANGED <<db, run, checkedOut, ingest, tableList, batch, config, titles, pages>>

\* ArticlesScraper.processArticle: convertToMarkdown(htmlContent)
ConvertToMarkdown ==
    /\ pc = "normalize"
    /\ \E answer \in {"ok", "neterr", "notok", "nocontent"} :
         LET markdownContent == convertToMarkdown(modelName, raw, answer)
         IN /\ answer # "ok" => (CanFault /\ modelName # "")
            /\ faults' = IF answer = "ok" THEN faults ELSE faults + 1
            /\ ev' = Event("convertToMarkdown",
                           IF modelName = "" THEN "nomodel" ELSE answer)
            /\ IF ~Truthy(markdownContent)
               THEN AfterArticle(artIdx + 1) /\ UNCHANGED toStore
               ELSE /\ toStore' = markdownContent
                    /\ pc' = "write"
                    /\ UNCHANGED <<artIdx, tblIdx, iteration>>
    /\ UNCHANGED <<db, run, checkedOut, ingest, tableList, batch, attempted,
                   raw, config, titles, pages>>

\* ArticlesScraper.processArticle: the content UPDATE in its transaction;
\* statements 1 BEGIN, 2 UPDATE, 3 COMMIT
WriteContent ==
    /\ pc = "write"
    /\ CanConnect
    /\ LET t == tableList[tblIdx]
           id == batch[artIdx].id
           updated == UpdateContent(db, t, id, toStore)
       IN \/ /\ db' = updated
             /\ ev' = Event("write", "commit")
             /\ AfterArticle(artIdx + 1)
             /\ checkedOut' = Release(checkedOut + 1)
             /\ UNCHANGED faults
          \/ /\ CanFault
             /\ faults' = faults + 1
             /\ \E inj \in 0..3 :
                  /\ db' = IF inj = 0 THEN db
                           ELSE Rollback(db, IF inj = 3 THEN updated ELSE db)
                  /\ ev' = Event("write", IF inj = 0 THEN "connect" ELSE "throw")
                  /\ checkedOut' = IF inj = 0 THEN checkedOut
                                   ELSE Release(checkedOut + 1)
             /\ AfterArticle(ArticleCaught(artIdx, Len(batch)))
    /\ raw' = NullContent
    /\ toStore' = NullContent
    /\ UNCHANGED <<run, ingest, tableList, batch, attempted, config, titles, pages>>

\* variant: runWorkerLoop calls feedWorker without awaiting it, so the next
\* iteration starts wherever the running one is
SleepNotAwaiting ==
    /\ run < MaxRuns
    /\ run' = run + 1
    /\ pc' = "start"
    /\ ev' = Event("sleep", "ok")
    /\ iteration' = "running"
    /\ feedIdx' = 0
    /\ feedData' = NoFeedData
    /\ tableList' = <<>>
    /\ tblIdx' = 0
    /\ batch' = <<>>
    /\ artIdx' = 0
    /\ attempted' = {}
    /\ raw' = NullContent
    /\ toStore' = NullContent
    /\ UNCHANGED <<db, faults, checkedOut, config, titles, pages>>

\* runWorkerLoop: sleep, then the next feedWorker
Sleep ==
    /\ pc = "sleep"
    /\ run < MaxRuns
    /\ run' = run + 1
    /\ pc' = "start"
    /\ ev' = Event("sleep", "ok")
    /\ iteration' = "running"
    /\ feedIdx' = 0
    /\ feedData' = NoFeedData
    /\ tableList' = <<>>
    /\ tblIdx' = 0
    /\ batch' = <<>>
    /\ artIdx' = 0
    /\ attempted' = {}
    /\ raw' = NullContent
    /\ toStore' = NullContent
    /\ UNCHANGED <<db, faults, checkedOut, config, titles, pages>>

Next ==
    \/ InitializeDatabase
    \/ Initialize
    \/ PullAndParseFeed
    \/ StoreFeedSource
    \/ GetArticleTables
    \/ GetUnprocessedArticles
    \/ ScrapeArticle
    \/ ConvertToMarkdown
    \/ WriteContent
    \/ Sleep

Spec == Init /\ [][Next]_vars


(***************************************************************************)
(* Identifier derivation on its own: pullAndParseFeed's channelName and    *)
(* articlesTable for the titles two feeds may carry                        *)
(***************************************************************************)
\* bound: length of the channel titles enumerated
MaxTitleLen == 2

TitleChars == <<"a", "B", "-", "|", " ">>

\* feed.title: every string over TitleChars up to the bound (<<>> is a
\* missing title), a CDATA-wrapped title, an HTML-encoded pipe and an
\* HTML-encoded pipe with a pipe inside
Titles ==
    UNION { [1..k -> Range(TitleChars)] : k \in 0..MaxTitleLen }
    \cup { CDataOpen \o <<"a">> \o CDataClose, EncodedPipe,
           <<"&","#","1","2","|","4",";">> }

InitTitles ==
    /\ db = [sources |-> {}, tables |-> << >>]
    /\ pc = "titles"
    /\ run = 1
    /\ faults = 0
    /\ checkedOut = 0
    /\ feedIdx = 0
    /\ feedData = NoFeedData
    /\ tableList = <<>>
    /\ tblIdx = 0
    /\ batch = <<>>
    /\ artIdx = 0
    /\ attempted = {}
    /\ raw = NullContent
    /\ toStore = NullContent
    /\ tnVersion = "fetch"
    /\ modelName = "reader-lm"
    /\ feedSet = "regular"
    /\ ev = Event("init", "ok")
    /\ titleIn \in Titles \X Titles
    /\ derived = <<>>
    /\ htmlIn = NoPage
    /\ extracted = NotExtracted
    /\ iteration = "running"

\* pullAndParseFeed's source record for each of the two feeds
DeriveIdentifiers ==
    /\ pc = "titles"
    /\ derived = <<>>
    /\ derived' = [i \in 1..2 |->
                      ParseFeed(feedUrls[i],
                                [title |-> titleIn[i], items |-> <<>>]).source]
    /\ ev' = Event("pull", "ok")
    /\ UNCHANGED <<db, pc, run, faults, checkedOut, ingest, enrich, config,
                   titleIn, pages, iteration>>

NextTitles == DeriveIdentifiers

TitleSpec == InitTitles /\ [][NextTitles]_vars


(***************************************************************************)
(* extractMainContent of the two scrapers on the pages of the bound        *)
(***************************************************************************)
InitPages ==
    /\ db = [sources |-> {}, tables |-> << >>]
    /\ pc = "extract"
    /\ run = 1
    /\ faults = 0
    /\ checkedOut = 0
    /\ feedIdx = 0
    /\ feedData = NoFeedData
    /\ tableList = <<>>
    /\ tblIdx = 0
    /\ batch = <<>>
    /\ artIdx = 0
    /\ attempted = {}
    /\ raw = NullContent
    /\ toStore = NullContent
    /\ tnVersion = "fetch"
    /\ modelName = "reader-lm"
    /\ feedSet = "regular"
    /\ ev = Event("init", "ok")
    /\ titleIn = <<>>
    /\ derived = <<>>
    /\ htmlIn \in { [for |-> "trueNorth", tokens |-> t] : t \in TnPages }
                 \cup { [for |-> "cbc", tokens |-> t] : t \in CbcPages }
    /\ extracted = NotExtracted
    /\ iteration = "running"

\* scrape: const content = this.extractMainContent(html)
ExtractMainContent ==
    /\ pc = "extract"
    /\ extracted = NotExtracted
    /\ extracted' = IF htmlIn.for = "trueNorth"
                    THEN trueNorthExtractMainContent(PageText(htmlIn.tokens))
                    ELSE cbcExtractMainContent(PageText(htmlIn.tokens))
    /\ ev' = Event("extractMainContent", "ok")
    /\ UNCHANGED <<db, pc, run, faults, checkedOut, ingest, enrich, config,
                   titles, htmlIn, iteration>>

NextPages == ExtractMainContent

PageSpec == InitPages /\ [][NextPages]_vars


(***************************************************************************)
(* The worker on sources that carry more pending articles than one pending *)
(* query returns                                                           *)
(***************************************************************************)
InitBacklog ==
    /\ db = [sources |-> {}, tables |-> << >>]
    /\ pc = "start"
    /\ run = 1
    /\ faults = 0
    /\ checkedOut = 0
    /\ feedIdx = 0
    /\ feedData = NoFeedData
    /\ tableList = <<>>
    /\ tblIdx = 0
    /\ batch = <<>>
    /\ artIdx = 0
    /\ attempted = {}
    /\ raw = NullContent
    /\ toStore = NullContent
    /\ tnVersion \in {"feed", "fetch"}
    /\ modelName \in {"reader-lm", ""}
    /\ feedSet = "backlog"
    /\ ev = Event("init", "ok")
    /\ titleIn = <<>>
    /\ derived = <<>>
    /\ htmlIn = NoPage
    /\ extracted = NotExtracted
    /\ iteration = "running"

BacklogSpec == InitBacklog /\ [][Next]_vars


(***************************************************************************)
(* Properties                                                              *)
(***************************************************************************)
Rows(d, t) == d.tables[t]
StoredRows(d, t) == { i \in DOMAIN Rows(d, t) : Rows(d, t)[i].content # NullContent }
\* the content of the row with this id
ContentOf(d, t, id) ==
    LET i == CHOOSE k \in DOMAIN Rows(d, t) : Rows(d, t)[k].id = id
    IN Rows(d, t)[i].content
BatchIds == { batch[k].id : k \in DOMAIN batch }
InArticle == pc \in {"article", "normalize", "write"}
\* the table the batch was fetched from
BatchTable == tableList[IF InArticle THEN tblIdx ELSE tblIdx - 1]
StoreCommitted == ev.op = "store" /\ ev.res = "commit"
FeedUrlsOf(fd) == { fd.articles[k].url : k \in DOMAIN fd.articles }

\* every stored (non-null content) row of d is in e with the same url and
\* the same content
KeepsContent(d, e) ==
    \A t \in DOMAIN d.tables : \A i \in StoredRows(d, t) :
        /\ t \in DOMAIN e.tables
        /\ i \in DOMAIN e.tables[t]
        /\ e.tables[t][i].url = d.tables[t][i].url
        /\ e.tables[t][i].content = d.tables[t][i].content

\* C1: storeFeedSource, however it ends and whatever title and date the
\* feed carries, leaves the content of every stored article as it was
C1_ReingestKeepsContent == [][pc = "store" => KeepsContent(db, db')]_vars

\* a feed was just stored into a table that holds a stored article of one of
\* the feed's URLs, with a title or date other than the ones first ingested
C1_Witness ==
    /\ StoreCommitted
    /\ run > 1
    /\ LET t == feedData.source.articles_table
       IN \E i \in StoredRows(db, t) :
            /\ Rows(db, t)[i].url \in FeedUrlsOf(feedData)
            /\ Rows(db, t)[i].title = <<"B">>

\* C2: no step of the worker changes a non-null content, and the content
\* UPDATE is only ever issued for a row whose content is NULL
C2_ContentWrittenOnce ==
    [][/\ KeepsContent(db, db')
       /\ pc = "write" =>
            ContentOf(db, tableList[tblIdx], batch[artIdx].id) = NullContent]_vars

\* a later run is about to write the first article of its batch into a
\* table that holds an article stored by an earlier run
C2_Witness ==
    /\ run > 1
    /\ pc = "write"
    /\ artIdx = 1
    /\ StoredRows(db, tableList[tblIdx]) # {}

\* C3: no table holds two rows with one URL
C3_UrlUnique ==
    \A t \in DOMAIN db.tables : \A i, j \in DOMAIN Rows(db, t) :
        Rows(db, t)[i].url = Rows(db, t)[j].url => i = j

\* a feed that lists one URL twice was stored on a re-ingest
C3_Witness ==
    /\ StoreCommitted
    /\ run > 1
    /\ \E i, j \in DOMAIN feedData.articles :
          i # j /\ feedData.articles[i].url = feedData.articles[j].url
    /\ Len(Rows(db, feedData.source.articles_table)) > 1

\* C4: right after storeFeedSource committed, running it again with the
\* same feed data commits and changes nothing
C4_UpsertIdempotent ==
    StoreCommitted =>
        LET again == StoreFrom(db, feedData, 1, 0)
        IN again.failed = 0 /\ again.db = db

\* the feed just stored met a table that already held all its articles,
\* one of them stored and one pending
C4_Witness ==
    /\ StoreCommitted
    /\ run > 1
    /\ LET t == feedData.source.articles_table
       IN /\ Len(Rows(db, t)) = Cardinality(FeedUrlsOf(feedData))
          /\ Len(Rows(db, t)) > 1
          /\ StoredRows(db, t) # {}
          /\ StoredRows(db, t) # DOMAIN Rows(db, t)

\* C5: every article of the fetched batch not yet processed in this pass,
\* the one processArticle is working on included, has NULL content
C5_PendingOnlyNull ==
    InArticle =>
        \A k \in artIdx..Len(batch) :
            ContentOf(db, tableList[tblIdx], batch[k].id) = NullContent

\* a batch was fetched from a table that holds a stored article
C5_Witness ==
    /\ pc = "article"
    /\ artIdx = 1
    /\ StoredRows(db, tableList[tblIdx]) # {}

\* C6: a storeFeedSource that does not commit leaves sources and every
\* article table as they were
C6_BatchAtomic == [][(pc = "store" /\ ev'.res # "commit") => db' = db]_vars

\* the insert of the second article failed, and neither the table the batch
\* created nor its source row nor its first article is there
C6_Witness ==
    /\ ev.op = "store" /\ ev.res = "throw" /\ ev.at = 5
    /\ ~HasTable(db, feedData.source.articles_table)
    /\ db.sources = {}

\* C7: a table pass ends only when processArticle was called for every
\* article of its batch, and a run that listed the tables ends only after
\* the last of them
C7_PerItemIsolation ==
    /\ (pc \in {"fetch", "sleep"} /\ batch # <<>>) => attempted = BatchIds
    /\ (pc = "sleep" /\ tableList # <<>>) => tblIdx = Len(tableList) + 1

\* an article failed and the next article of the batch is being processed
C7_Witness ==
    /\ ev.res = "throw"
    /\ ev.op \in {"scrape", "write"}
    /\ pc = "article"
    /\ artIdx > 1

\* C8: when the inference call fails, the value handed to the content
\* UPDATE is the extracted content, and a committed UPDATE stores the value
\* it was handed
C8_NormalizeFallback ==
    [][/\ (pc = "normalize" /\ ev'.res # "ok") =>
            (pc' = "write" /\ toStore' = raw)
       /\ (pc = "write" /\ ev'.res = "commit") =>
            ContentOf(db', tableList[tblIdx], batch[artIdx].id) = toStore]_vars

\* the content committed after a failed inference call is the raw HTML
C8_Witness ==
    /\ ev.op = "write" /\ ev.res = "commit"
    /\ faults > 0
    /\ \E t \in DOMAIN db.tables : \E i \in DOMAIN Rows(db, t) :
          Rows(db, t)[i].content.kind = "html"

\* the feeds list this URL with the category Videos
IsVideoUrl(url) ==
    \E f \in Range(feedUrls) : \E doc \in FeedDocs(f) :
        \E k \in DOMAIN doc.items :
            /\ doc.items[k].link = url
            /\ "Videos" \in Range(doc.items[k].categories)

\* C9: an article the feed categorises as Videos never reaches the
\* conversion step (no page is fetched for it), and when nothing in the run
\* failed its pass ends with the sentinel as its content
C9_VideoSentinel ==
    /\ (InArticle /\ IsVideoUrl(batch[artIdx].url)) =>
          (pc # "normalize" /\ (pc = "write" => toStore = VideoContent))
    /\ (pc \in {"fetch", "sleep"} /\ faults = 0) =>
          \A k \in DOMAIN batch :
              IsVideoUrl(batch[k].url) =>
                  ContentOf(db, BatchTable, batch[k].id) = VideoContent

\* no registered domain occurs in the URL's host, or the URL does not parse
NoRegisteredDomain(url) ==
    \/ url.scheme = ""
    \/ \A k \in DOMAIN scrapers : ~Includes(toLowerCase(url.host), scrapers[k].baseUrl)

\* C10: processArticle for a URL without scraper ends as a skip: nothing is
\* written, nothing is raised, and the loop goes on after this article
C10_NoScraperSkips ==
    [][(pc = "article" /\ NoRegisteredDomain(batch[artIdx].url)) =>
          /\ db' = db
          /\ ev' = Event("processArticle", "skipped")
          /\ faults' = faults
          /\ artIdx' = artIdx + 1
          /\ pc' \in {"article", "fetch", "sleep"}]_vars

\* the article with the malformed link was skipped and is still pending
C10_Witness ==
    /\ ev = Event("processArticle", "skipped")
    /\ \E k \in DOMAIN batch :
          /\ batch[k].url = UrlM
          /\ batch[k].id \in attempted
          /\ ContentOf(db, BatchTable, batch[k].id) = NullContent

\* C11: a processArticle whose scrape raised, or returned nothing, changes no
\* row and leaves the article's content NULL; only extracted page content
\* goes on to conversion and to the UPDATE, and every row's content is
\* either NULL or a non-empty value
C11_ExtractionFailurePending ==
    [][/\ (pc = "article" /\ ev'.res \in {"throw", "empty"}) =>
            /\ db' = db
            /\ ContentOf(db', tableList[tblIdx], batch[artIdx].id) = NullContent
            /\ pc' \notin {"normalize", "write"}
       /\ (pc = "article" /\ pc' \in {"normalize", "write"}) =>
            raw'.kind \in {"html", "text"}
       /\ \A t \in DOMAIN db'.tables : \A i \in DOMAIN Rows(db', t) :
            \/ Rows(db', t)[i].content = NullContent
            \/ /\ Rows(db', t)[i].content.kind \in {"html", "md", "text"}
               /\ Truthy(Rows(db', t)[i].content)]_vars

\* the scrape of a cbc.ca article raised and the article is still pending
C11_Witness ==
    /\ ev = Event("scrape", "throw")
    /\ \E k \in DOMAIN batch :
          /\ batch[k].url = UrlC
          /\ batch[k].id \in attempted
          /\ ContentOf(db, BatchTable, batch[k].id) = NullContent

\* does s end with p
EndsWith(s, p) == Len(p) <= Len(s) /\ MatchAt(s, Len(s) - Len(p) + 1, p)

\* the scraper of the earliest-registered domain the URL's host ends with
SuffixDispatch(url) ==
    IF ~ValidUrl(url) THEN "none"
    ELSE LET hits == { k \in DOMAIN scrapers :
                          EndsWith(toLowerCase(url.host), scrapers[k].baseUrl) }
         IN IF hits = {} THEN "none"
            ELSE scrapers[CHOOSE k \in hits : \A m \in hits : k <= m].scraper

\* C12: the scraper processArticle resolves for an article is the one of the
\* earliest-registered domain its host ends with, and none when the host
\* ends with no registered domain
C12_SuffixDispatch ==
    pc = "article" =>
        getScraperForUrl(batch[artIdx].url) = SuffixDispatch(batch[artIdx].url)

\* a valid table name: lowercase letters, digits and underscores, not
\* empty, no underscore first or last, no two underscores in a row
ValidIdentifier(s) ==
    /\ s # <<>>
    /\ \A i \in DOMAIN s : IsTableChar(s[i]) \/ s[i] = "_"
    /\ s[1] # "_"
    /\ s[Len(s)] # "_"
    /\ \A i \in 1..(Len(s) - 1) : ~(s[i] = "_" /\ s[i + 1] = "_")

\* C13: the table identifier derived for a source is a valid table name,
\* whatever the channel title
C13_IdentifierValid ==
    \A i \in DOMAIN derived : ValidIdentifier(derived[i].articles_table)

\* the sanitized form of a channel title
SanitizedTitle(t) == sanitizeTableName(cleanTitle(OrElse(t, UnknownChannel)))

\* C14: two channel titles that differ after trimming and whose sanitized
\* forms are not empty get different table identifiers
C14_DeriveInjective ==
    (/\ derived # <<>>
     /\ Trim(titleIn[1]) # Trim(titleIn[2])
     /\ SanitizedTitle(titleIn[1]) # <<>>
     /\ SanitizedTitle(titleIn[2]) # <<>>)
    => derived[1].articles_table # derived[2].articles_table

\* C15: two sources whose titles are empty after sanitization get
\* different table identifiers
C15_EmptyTitlePlaceholder ==
    (/\ derived # <<>>
     /\ SanitizedTitle(titleIn[1]) = <<>>
     /\ SanitizedTitle(titleIn[2]) = <<>>)
    => derived[1].articles_table # derived[2].articles_table

\* C16: no step changes the table identifier of an existing source row
C16_IdentifierFixed ==
    [][\A r \in db.sources : \A q \in db'.sources :
          q.url = r.url => q.articles_table = r.articles_table]_vars

\* another source already holds the identifier the pulled feed derives
IdentifierTaken ==
    \E r \in db.sources :
        /\ r.url # feedData.source.url
        /\ r.articles_table = feedData.source.articles_table

\* C17: storeFeedSource for a feed whose identifier another source holds
\* does not commit and changes nothing (left to itself it fails at the
\* source upsert), and no two source rows ever share a table identifier
C17_CollisionRejected ==
    [][/\ (pc = "store" /\ IdentifierTaken) =>
            /\ ev'.res # "commit"
            /\ db' = db
            /\ faults' = faults => ev' = EventAt("store", "throw", 3)
       /\ \A r, q \in db'.sources :
            r.articles_table = q.articles_table => r = q]_vars

\* the second feed derived the identifier of the first source: its source
\* upsert threw, and the first source's table holds none of its articles
C17_Witness ==
    /\ ev = EventAt("store", "throw", 3)
    /\ feedData.source.url = FeedCbc
    /\ feedData.articles # <<>>
    /\ \E r \in db.sources :
          /\ r.url = FeedTnc
          /\ r.articles_table = feedData.source.articles_table
          /\ Rows(db, r.articles_table) # <<>>
          /\ \A i \in DOMAIN Rows(db, r.articles_table) :
                Rows(db, r.articles_table)[i].url \notin FeedUrlsOf(feedData)
    /\ Cardinality(db.sources) = 1

\* C18: sources holds one row per feed URL, and right after a committed
\* storeFeedSource the row of the feed's URL is the source record of this
\* fetch (its channel name and table identifier)
C18_SourceKeyedOnUrl ==
    /\ \A r, q \in db.sources : r.url = q.url => r = q
    /\ StoreCommitted => feedData.source \in db.sources

\* a feed stored before under another title was stored again: its one row
\* holds the new identifier, and the table of the old one is still there
C18_Witness ==
    /\ StoreCommitted
    /\ run > 1
    /\ feedData.source.url = FeedTnc
    /\ feedData.source.channel_name = <<"T", "-", "N">>
    /\ HasTable(db, TablePrefix \o <<"t", "n">>)
    /\ Cardinality({ r \in db.sources : r.url = FeedTnc }) = 1

\* the pulled feed has an item without publish date
LacksDate(fd) == \E k \in DOMAIN fd.articles : ~fd.articles[k].date_added.valid

\* C19: storeFeedSource for a feed with an item that has no publish date,
\* when nothing outside fails and the identifier is free, commits and every
\* item of the feed is a row of the source's table
C19_MissingDateStored ==
    [][(pc = "store" /\ LacksDate(feedData) /\ ~IdentifierTaken
           /\ faults' = faults) =>
          /\ ev'.res = "commit"
          /\ \A u \in FeedUrlsOf(feedData) :
                \E i \in DOMAIN Rows(db', feedData.source.articles_table) :
                    Rows(db', feedData.source.articles_table)[i].url = u]_vars

\* the values an integer scrape_check may have been given
CheckValues == {0, 1}

\* d with the scrape_check of the rows of table t set to sc
WithScrapeCheck(d, t, sc) ==
    [d EXCEPT !.tables[t] =
        [i \in DOMAIN @ |-> [@[i] EXCEPT !.scrape_check = sc[i]]]]

HoldsNumber(v, n) == v # NULL /\ v = n

\* C21: in every row scrape_check is 0 while content is NULL and 1 once
\* content is stored
C21_ScrapeCheckTracks ==
    \A t \in DOMAIN db.tables : \A i \in DOMAIN Rows(db, t) :
        IF Rows(db, t)[i].content = NullContent
        THEN HoldsNumber(Rows(db, t)[i].scrape_check, 0)
        ELSE HoldsNumber(Rows(db, t)[i].scrape_check, 1)

\* C22: the sources-table setup, the feed store, the table listing, the
\* pending fetch and the content write end, however they end, with as many
\* clients checked out as when they began
C22_ConnectionReleased ==
    [][(pc \in {"init", "store", "list", "fetch", "write"}) =>
          checkedOut' = checkedOut]_vars

\* a content write failed after it had acquired its client, and no client
\* is checked out
C22_Witness ==
    /\ ev = Event("write", "throw")
    /\ checkedOut = 0

\* C23: while a feed fetch, an article scrape or an inference request is
\* the step in progress, no pool client is checked out
C23_NoConnectionAcrossNetwork ==
    pc \in {"pull", "article", "normalize"} => checkedOut = 0

\* C24: a feed whose pull or store fails commits nothing, and the error
\* reaches feedWorker: the iteration ends there
C24_SourceErrorPropagates ==
    [][(pc \in {"pull", "store"} /\ ev'.res \notin {"ok", "commit"}) =>
          /\ db' = db
          /\ pc' = "sleep"
          /\ feedIdx' = feedIdx]_vars

\* the fetch of the second feed failed after the first feed was committed
C24_Witness ==
    /\ ev = Event("pull", "throw")
    /\ pc = "sleep"
    /\ feedIdx = 2
    /\ db.sources # {}

\* the worker is inside processAllTables
InEnrichment == pc \in {"list", "fetch", "article", "normalize", "write"}

\* C25: no step of processAllTables makes the feedWorker call fail, and
\* when processAllTables is over the call has run to its end and the worker
\* goes to sleep
C25_EnrichmentCompletes ==
    [][InEnrichment =>
          /\ iteration' # WorkerFailed
          /\ ~InEnrichment' => (pc' = "sleep" /\ iteration' = WorkerCompleted)]_vars

\* listing the tables failed and the feedWorker call completed
C25_Witness ==
    /\ ev.op = "getArticleTables"
    /\ ev.res \in {"connect", "query"}
    /\ pc = "sleep"
    /\ iteration = WorkerCompleted

\* C26: a new iteration starts only when the feedWorker call before it has
\* ended; while a feed is being ingested no enrichment state moves; while an
\* article is being enriched the sources, the table and the batch stay and
\* the only article that can start is the next one of the batch
C26_Sequential ==
    [][/\ run' # run =>
            (pc = "sleep" /\ iteration # "running" /\ pc' = "start")
       /\ pc \in {"pull", "store"} =>
            /\ UNCHANGED enrich
            /\ feedIdx' \in {feedIdx, feedIdx + 1}
       /\ (InArticle /\ InArticle') =>
            /\ db'.sources = db.sources
            /\ UNCHANGED <<ingest, tableList, tblIdx, batch>>
            /\ \/ artIdx' = artIdx
               \/ artIdx' = artIdx + 1 /\ pc' = "article"]_vars

\* in a later iteration the second article of a batch is in progress
C26_Witness ==
    /\ run > 1
    /\ pc = "normalize"
    /\ artIdx = 2


\* is the row pending with a registered scraper for its URL
Retriable(r) == r.content = NullContent /\ getScraperForUrl(r.url) # "none"

\* C27: retry by the next run makes progress.  With dates that differ the
\* pending query of the next run returns the same batch unless this pass
\* stored one of its articles, so a pass without any failure injected, with
\* the inference model configured, must have attempted every pending
\* article that has a scraper, or have stored one of the articles it did
\* attempt; otherwise that article is never attempted in any later run.
C27_RetryProgress ==
    (pc \in {"fetch", "sleep"} /\ batch # <<>> /\ faults = 0 /\ modelName # "")
    => \A i \in DOMAIN Rows(db, BatchTable) :
         Retriable(Rows(db, BatchTable)[i])
         => \/ Rows(db, BatchTable)[i].id \in attempted
            \/ \E j \in StoredRows(db, BatchTable) :
                  Rows(db, BatchTable)[j].id \in attempted


\* the date_added of the row of the batch's table with this id
DateOf(id) ==
    LET i == CHOOSE i \in DOMAIN Rows(db, BatchTable) :
                 Rows(db, BatchTable)[i].id = id
    IN Rows(db, BatchTable)[i].date_added

\* C28: in one run at most five articles of a table are attempted, and no
\* article has been attempted while a pending article of the same table with
\* a strictly newer date_added is untried.
C28_NewestFirstBatch ==
    /\ Cardinality(attempted) <= PendingLimit
    /\ attempted # {}
       => \A id \in attempted : \A i \in DOMAIN Rows(db, BatchTable) :
            ( /\ Rows(db, BatchTable)[i].content = NullContent
              /\ Rows(db, BatchTable)[i].date_added > DateOf(id) )
            => Rows(db, BatchTable)[i].id \in attempted

\* five articles of a table have been attempted, the oldest of them was
\* handed to a scraper, and an older article is left pending for a later run
C28_Witness ==
    /\ Cardinality(attempted) = PendingLimit
    /\ pc = "normalize"
    /\ \E i \in DOMAIN Rows(db, BatchTable) :
         /\ Rows(db, BatchTable)[i].content = NullContent
         /\ Rows(db, BatchTable)[i].id \notin attempted
         /\ \A id \in attempted : DateOf(id) > Rows(db, BatchTable)[i].date_added


\* C29: when the pull or the store of the k-th feed fails, the run stops
\* there: the sources and rows committed before are kept as they are, no
\* table list is read (processAllTables is not entered), and the only step
\* after it is the sleep before the next run, so no later feed is fetched
\* or stored in that run.
C29_FeedFailureStopsRun ==
    [][/\ (pc \in {"pull", "store"} /\ iteration' = WorkerFailed)
          => /\ pc' = "sleep"
             /\ feedIdx' = feedIdx
             /\ tableList' = <<>>
             /\ \A s \in db.sources :
                   /\ s \in db'.sources
                   /\ Rows(db', s.articles_table) = Rows(db, s.articles_table)
       /\ (iteration = WorkerFailed)
          => /\ run' = run + 1
             /\ pc' = "start"
             /\ db' = db]_vars

\* the second feed failed in the first run after the first feed was
\* committed, and the next run has begun with the first feed's rows in place
C29_Witness ==
    /\ run = 2
    /\ pc = "start"
    /\ faults = 1
    /\ Cardinality(db.sources) = 1
    /\ \A s \in db.sources : s.url = feedUrls[1] /\ Rows(db, s.articles_table) # <<>>


\* C30: when scrape returns the sentinel 'Video Content', the article goes
\* straight to the content UPDATE with the sentinel as the value, the
\* conversion step never runs on the sentinel, and the committed content of
\* the article is exactly the sentinel.
C30_SentinelBypasses ==
    [][/\ (pc = "normalize") => raw # VideoContent
       /\ (pc = "article" /\ raw' = VideoContent)
          => (pc' = "write" /\ toStore' = VideoContent /\ artIdx' = artIdx)
       /\ (pc = "write" /\ raw = VideoContent /\ ev'.res = "commit")
          => ContentOf(db', BatchTable, batch[artIdx].id) = VideoContent]_vars

\* the page of an article held the text 'Video Content' and the sentinel
\* was committed as its content
C30_Witness ==
    /\ ev = Event("write", "commit")
    /\ \E t \in DOMAIN db.tables : \E i \in DOMAIN db.tables[t] :
         /\ db.tables[t][i].url = UrlS
         /\ db.tables[t][i].content = VideoContent


\* the last article of the feed data that carries this URL
LatestOf(fd, url) ==
    fd.articles[CHOOSE k \in DOMAIN fd.articles :
                   /\ fd.articles[k].url = url
                   /\ \A m \in DOMAIN fd.articles :
                         fd.articles[m].url = url => m <= k]

\* C31: when storeFeedSource commits, every row whose URL is in the feed
\* carries the title and the date of the feed's latest entry for that URL,
\* and every row that was there before keeps its id and its URL
C31_UpsertRefreshes ==
    [][(pc = "store" /\ ev'.res = "commit") =>
          LET t == feedData.source.articles_table
          IN /\ \A i \in DOMAIN Rows(db', t) :
                   Rows(db', t)[i].url \in FeedUrlsOf(feedData) =>
                     /\ Rows(db', t)[i].title =
                            LatestOf(feedData, Rows(db', t)[i].url).title
                     /\ Rows(db', t)[i].date_added =
                            LatestOf(feedData, Rows(db', t)[i].url).date_added.day
             /\ HasTable(db, t) =>
                   \A i \in DOMAIN Rows(db, t) :
                     /\ i \in DOMAIN Rows(db', t)
                     /\ Rows(db', t)[i].id = Rows(db, t)[i].id
                     /\ Rows(db', t)[i].url = Rows(db, t)[i].url]_vars

\* a re-ingest met the row of a URL that an earlier run had stored as 'A' of
\* day 1 and enriched, and left it with the feed's later title and date
\* under its first id
C31_Witness ==
    /\ StoreCommitted
    /\ run > 1
    /\ LET t == feedData.source.articles_table
       IN /\ Rows(db, t)[1].url = UrlA
          /\ Rows(db, t)[1].id = 1
          /\ Rows(db, t)[1].title = <<"B">>
          /\ Rows(db, t)[1].date_added = 2
          /\ Rows(db, t)[1].content # NullContent
          /\ LatestOf(feedData, UrlA).title = <<"B">>


\* C32: in every committed state each row of sources names a table that
\* exists
C32_SourceHasTable ==
    \A s \in db.sources : HasTable(db, s.articles_table)

\* a feed without items was stored under a new title: its source row names
\* a table that holds no row, which only the CREATE TABLE of that transaction
\* can have made
C32_Witness ==
    /\ StoreCommitted
    /\ feedData.articles = <<>>
    /\ feedData.source \in db.sources
    /\ Rows(db, feedData.source.articles_table) = <<>>
    /\ Cardinality(DOMAIN db.tables) > Cardinality(db.sources)


\* C33: when a feedWorker iteration is over, whatever failed in it, no pool
\* client is checked out
C33_PoolDrained == pc = "sleep" => checkedOut = 0


\* a text value with at least one character
NonEmpty(c) == c.kind \in {"text", "html", "md"} /\ c.of # ""

\* C34: the value handed to the content UPDATE is the sentinel, the
\* extracted content or its conversion, and is never empty; a scrape that
\* yields nothing writes nothing; and every content in storage is NULL or
\* non-empty
C34_ContentNeverEmpty ==
    [][/\ (pc \in {"article", "normalize"} /\ pc' = "write")
          => /\ NonEmpty(toStore')
             /\ toStore' \in {VideoContent, raw', ModelAnswer(raw')}
       /\ (pc = "article" /\ ev'.res \in {"empty", "throw", "skipped"})
          => (db' = db /\ pc' # "write")
       /\ \A t \in DOMAIN db'.tables : \A i \in DOMAIN db'.tables[t] :
             \/ db'.tables[t][i].content = NullContent
             \/ NonEmpty(db'.tables[t][i].content)]_vars

\* a conversion was committed as the content of one article while another
\* article of the same table, whose scrape had failed, is left pending
C34_Witness ==
    /\ ev = Event("write", "commit")
    /\ faults > 0
    /\ \E i, j \in DOMAIN Rows(db, BatchTable) :
         /\ Rows(db, BatchTable)[i].content.kind = "md"
         /\ Rows(db, BatchTable)[j].content = NullContent
         /\ Rows(db, BatchTable)[j].id \in attempted


\* C37: the channel name cleanTitle gives contains no pipe, no '&#124;' and
\* no CDATA wrapper, cleaning it again gives it back unchanged, and a
\* missing title is cleaned to 'Untitled'
C37_CleanTitleComplete ==
    derived # <<>> =>
        /\ cleanTitle(<<>>) = Untitled
        /\ \A i \in DOMAIN derived :
             /\ ~Includes(derived[i].channel_name, Pipe)
             /\ ~Includes(derived[i].channel_name, EncodedPipe)
             /\ ~Includes(derived[i].channel_name, CDataOpen)
             /\ ~Includes(derived[i].channel_name, CDataClose)
             /\ cleanTitle(derived[i].channel_name) = derived[i].channel_name


RECURSIVE MatchingClose(_, _, _)
\* the position of the closing tag that brings the depth to 0, scanning the
\* pieces from j on at the given depth (0 when there is none)
MatchingClose(toks, j, depth) ==
    IF j > Len(toks) THEN 0
    ELSE IF toks[j] \in {"OM", "O", "D", "K"}
         THEN MatchingClose(toks, j + 1, depth + 1)
    ELSE IF toks[j] = "C"
         THEN IF depth = 1 THEN j ELSE MatchingClose(toks, j + 1, depth - 1)
    ELSE MatchingClose(toks, j + 1, depth)

\* the first piece of this kind (0 when there is none)
FirstOf(toks, tok) ==
    IF \E k \in DOMAIN toks : toks[k] = tok
    THEN CHOOSE k \in DOMAIN toks :
            toks[k] = tok /\ \A m \in 1..(k-1) : toks[m] # tok
    ELSE 0

\* what the claims expect for the div opened by piece k: the text up to its
\* matching closing tag (nothing extracted when that text is empty), or the
\* value for a div that is not closed
ExpectedInner(toks, k, unclosed) ==
    LET m == MatchingClose(toks, k + 1, 1)
        inner == PageText(SubSeq(toks, k + 1, m - 1))
    IN IF m = 0 THEN {unclosed}
       ELSE IF inner = <<>> THEN {NoText, Text(<<>>)}
       ELSE {Text(inner)}

\* C35: for a tnc.news page with a div marked role="main",
\* extractMainContent returns the text between the tag of that div and its
\* depth-matching closing tag, and null when the div has no matching closing
\* tag
C35_BalancedExtraction ==
    (extracted # NotExtracted /\ htmlIn.for = "trueNorth"
        /\ FirstOf(htmlIn.tokens, "OM") # 0)
    => extracted \in ExpectedInner(htmlIn.tokens, FirstOf(htmlIn.tokens, "OM"),
                                   NoText)


\* the pieces between <main> and </main> of a page that has both
MainBody(toks) == SubSeq(toks, 2, Len(toks) - 1)

\* C36: for a cbc.ca page, extractMainContent returns the inner content of
\* the detailContent div inside <main>, the whole content of <main> when
\* that div is absent or not closed, and nothing when the page has no
\* <main>, whether or not it has an id="content" container
C36_FallbackOrder ==
    (extracted # NotExtracted /\ htmlIn.for = "cbc")
    => IF FirstOf(htmlIn.tokens, "M") = 0 THEN extracted = NoText
       ELSE IF htmlIn.tokens[Len(htmlIn.tokens)] # "MC" THEN TRUE
       ELSE IF FirstOf(MainBody(htmlIn.tokens), "D") = 0
            THEN extracted = Text(PageText(MainBody(htmlIn.tokens)))
       ELSE extracted \in
              ExpectedInner(MainBody(htmlIn.tokens),
                            FirstOf(MainBody(htmlIn.tokens), "D"),
                            Text(PageText(MainBody(htmlIn.tokens))))

=============================================================================
